---------------------------- MODULE Spec2Model ----------------------------
(***************************************************************************)
(* Model of scrape_homepages.py: the headline extraction pipeline          *)
(* (normalize_url, score_anchor, extract_candidates, scrape_source, main). *)
(*                                                                         *)
(* Strings are sequences of one-character strings, so that splitting,      *)
(* lower-casing, prefix tests and length are computed and not assumed.     *)
(***************************************************************************)
EXTENDS Integers, Sequences, FiniteSets, TLC

VARIABLES
    sources,    \* main: the loaded source list (SourceCfg plus the page it serves)
    max_items,  \* main: args.per_site, passed down as max_items
    pc,         \* position of the run
    srcIdx,     \* main: index of the source of the `for src in sources` loop
    sel,        \* extract_candidates: index of the selector of the running pass
    pending,    \* extract_candidates: anchors of soup.select(sel) not yet visited
    seen,       \* extract_candidates: set of fingerprints
    scored,     \* extract_candidates: list of (score, {title, url})
    origin,     \* history: for each entry of scored, the anchor it was made from
    visited,    \* history: per pass, the anchors its loop body was run on
    endCount,   \* history: per pass, len(scored) when the pass ended (-1: not ended)
    items,      \* value returned by the last call of extract_candidates
    rows,       \* main: concatenated per-source items
    slept,      \* number of time.sleep(sleep_s) calls made so far
    fetched,    \* number of fetch(client, src.url) calls made so far
    seen_url,   \* main: the global dedupe set
    rowIdx,     \* main: position of the `for r in rows` loop
    deduped,    \* main: the final list
    probe,      \* argument of the pure function under check
    result      \* its results

vars == <<sources, max_items, pc, srcIdx, sel, pending, seen, scored, origin,
          visited, endCount, items, rows, slept, fetched, seen_url, rowIdx,
          deduped, probe, result>>

---------------------------------------------------------------------------
(* Character strings *)

LowerLetters == <<"a", "b", "c", "d", "e", "f", "g", "h", "i", "j", "k", "l", "m", "n", "o", "p", "q", "r", "s", "t", "u", "v", "w", "x", "y", "z">>
UpperLetters == <<"A", "B", "C", "D", "E", "F", "G", "H", "I", "J", "K", "L", "M", "N", "O", "P", "Q", "R", "S", "T", "U", "V", "W", "X", "Y", "Z">>
Digits == {"0", "1", "2", "3", "4", "5", "6", "7", "8", "9"}
Whitespace == {" ", "\t", "\n"}

Range(s) == {s[i] : i \in 1..Len(s)}

\* the lower-case letter of every upper-case one
LowerOf ==
    [c \in Range(UpperLetters) |->
        LowerLetters[CHOOSE i \in 1..Len(UpperLetters) : UpperLetters[i] = c]]

\* str.lower() on one character
LowerChar(c) == IF c \in DOMAIN LowerOf THEN LowerOf[c] ELSE c

RECURSIVE Lower(_)
Lower(s) == IF s = <<>> THEN <<>> ELSE <<LowerChar(Head(s))>> \o Lower(Tail(s))

\* s[n:]  (n counted from 0, as in Python)
Drop(s, n) == IF n >= Len(s) THEN <<>> ELSE SubSeq(s, n + 1, Len(s))
\* s[:n]
Take(s, n) == IF n >= Len(s) THEN s ELSE SubSeq(s, 1, n)

\* str.startswith
StartsWith(s, p) == Len(s) >= Len(p) /\ SubSeq(s, 1, Len(p)) = p

\* 1-based position of the first character of s that is in cs, 0 when none
FindAny(s, cs) ==
    IF \E i \in 1..Len(s) : s[i] \in cs
    THEN CHOOSE i \in 1..Len(s) : s[i] \in cs /\ \A j \in 1..(i - 1) : s[j] \notin cs
    ELSE 0

\* re.search of a literal pattern / the `in` operator on strings
Contains(s, p) == \E i \in 0..(Len(s) - Len(p)) : SubSeq(s, i + 1, i + Len(p)) = p

\* str.split(c): always at least one part
RECURSIVE Split(_, _)
Split(s, c) ==
    LET i == FindAny(s, {c})
    IN  IF i = 0 THEN <<s>> ELSE <<SubSeq(s, 1, i - 1)>> \o Split(Drop(s, i), c)

\* sep.join(parts)
RECURSIVE Join(_, _)
Join(parts, sep) ==
    IF parts = <<>> THEN <<>>
    ELSE IF Len(parts) = 1 THEN parts[1]
    ELSE parts[1] \o sep \o Join(Tail(parts), sep)

RECURSIVE Count(_, _)
Count(s, c) ==
    IF s = <<>> THEN 0 ELSE (IF Head(s) = c THEN 1 ELSE 0) + Count(Tail(s), c)

RECURSIVE Concat(_)
Concat(ss) == IF ss = <<>> THEN <<>> ELSE Head(ss) \o Concat(Tail(ss))

\* all sequences over S of length at most n
RECURSIVE SeqsUpTo(_, _)
SeqsUpTo(S, n) ==
    IF n = 0 THEN {<<>>}
    ELSE LET shorter == SeqsUpTo(S, n - 1)
         IN  shorter \cup {Append(t, x) : t \in shorter, x \in S}

---------------------------------------------------------------------------
(* urllib.parse, as far as normalize_url and urljoin use it *)

HTTP == <<"h", "t", "t", "p">>
HTTPS == <<"h", "t", "t", "p", "s">>
FTP == <<"f", "t", "p">>
HttpPrefix == <<"h", "t", "t", "p", ":", "/", "/">>
HttpsPrefix == <<"h", "t", "t", "p", "s", ":", "/", "/">>

SchemeChars == Range(LowerLetters) \cup Range(UpperLetters) \cup Digits \cup {"+", "-", "."}
Letters == Range(LowerLetters) \cup Range(UpperLetters)

\* the schemes of this model that urllib lists in uses_netloc and uses_relative
UsesNetloc == {HTTP, HTTPS, FTP}
UsesRelative == {HTTP, HTTPS, FTP, <<>>}

\* str.partition-like cut at the first c: the text before it and after it
CutAtFirst(s, c) ==
    LET i == FindAny(s, {c})
    IN  IF i = 0 THEN [head |-> s, tail |-> <<>>]
        ELSE [head |-> SubSeq(s, 1, i - 1), tail |-> Drop(s, i)]

\* urlsplit: the scheme, lower-cased, when the text before the first colon
\* is a well-formed scheme name
SplitScheme(u, default) ==
    LET colon == FindAny(u, {":"})
    IN  IF /\ colon > 1
           /\ u[1] \in Letters
           /\ \A j \in 1..(colon - 1) : u[j] \in SchemeChars
        THEN [scheme |-> Lower(SubSeq(u, 1, colon - 1)), rest |-> Drop(u, colon)]
        ELSE [scheme |-> default, rest |-> u]

\* _splitnetloc: after "//" the netloc runs to the first of / ? #
CutNetloc(after, delim) ==
    IF delim = 0 THEN [netloc |-> after, rest |-> <<>>]
    ELSE [netloc |-> SubSeq(after, 1, delim - 1), rest |-> Drop(after, delim - 1)]

SplitNetloc(rest) ==
    IF StartsWith(rest, <<"/", "/">>)
    THEN CutNetloc(Drop(rest, 2), FindAny(Drop(rest, 2), {"/", "?", "#"}))
    ELSE [netloc |-> <<>>, rest |-> rest]

\* urlsplit raises ValueError("Invalid IPv6 URL") on an unbalanced bracket
NetlocOk(netloc) ==
    /\ ~(("[" \in Range(netloc)) /\ ("]" \notin Range(netloc)))
    /\ ~(("]" \in Range(netloc)) /\ ("[" \notin Range(netloc)))

ParseResult(scheme, netloc, q, fragment) ==
    [ok |-> NetlocOk(netloc), scheme |-> scheme, netloc |-> netloc,
     path |-> q.head, query |-> q.tail, fragment |-> fragment]

ParseQuery(scheme, netloc, f) ==
    ParseResult(scheme, netloc, CutAtFirst(f.head, "?"), f.tail)

ParseFragment(scheme, n) == ParseQuery(scheme, n.netloc, CutAtFirst(n.rest, "#"))

ParseNetloc(s) == ParseFragment(s.scheme, SplitNetloc(s.rest))

\* urlparse(u, default): scheme, netloc, path, query, fragment; ok = FALSE
\* stands for the ValueError.  `default` is the scheme used when u has none.
urlparse2(u, default) == ParseNetloc(SplitScheme(u, default))

urlparse(u) == urlparse2(u, <<>>)

WithFragment(url, p) ==
    IF p.fragment # <<>> THEN url \o <<"#">> \o p.fragment ELSE url

WithQuery(url, p) ==
    WithFragment(IF p.query # <<>> THEN url \o <<"?">> \o p.query ELSE url, p)

WithScheme(url, p) ==
    WithQuery(IF p.scheme # <<>> THEN p.scheme \o <<":">> \o url ELSE url, p)

\* urlunparse(p): empty components vanish together with their delimiters
urlunparse(p) ==
    WithScheme(IF p.netloc # <<>>
                  \/ (p.scheme # <<>> /\ p.scheme \in UsesNetloc
                      /\ ~StartsWith(p.path, <<"/", "/">>))
               THEN <<"/", "/">> \o p.netloc
                    \o (IF p.path # <<>> /\ Head(p.path) # "/" THEN <<"/">> ELSE <<>>)
                    \o p.path
               ELSE p.path,
               p)

---------------------------------------------------------------------------
(* normalize_url *)

UtmPrefix == <<"u", "t", "m", "_">>
Fbclid == <<"f", "b", "c", "l", "i", "d">>
Gclid == <<"g", "c", "l", "i", "d">>

\* k = part.split("=", 1)[0].lower()
ParamKey(part) == Lower(Split(part, "=")[1])

\* the test that makes normalize_url drop a query part
IsTracking_KeepCase(part) ==
    LET k == Split(part, "=")[1]
    IN  StartsWith(k, UtmPrefix) \/ k \in {Fbclid, Gclid}

IsTracking(part) ==
    LET k == ParamKey(part)
    IN  StartsWith(k, UtmPrefix) \/ k \in {Fbclid, Gclid}

NotTracking(part) == ~IsTracking(part)

NormalizeParsed(u, p) ==
    IF ~p.ok THEN u   \* except Exception: return u
    ELSE IF p.query # <<>>
    THEN urlunparse([p EXCEPT !.fragment = <<>>,
                              !.query = Join(SelectSeq(Split(p.query, "&"), NotTracking),
                                             <<"&">>)])
    ELSE urlunparse([p EXCEPT !.fragment = <<>>])

normalize_url(u) == NormalizeParsed(u, urlparse(u))

---------------------------------------------------------------------------
(* urljoin, for hrefs without dot segments *)

NonEmpty(t) == t # <<>>

\* base_parts: the segments of the base path without its last, non-empty one
BaseParts(parts) ==
    IF parts[Len(parts)] # <<>> THEN SubSeq(parts, 1, Len(parts) - 1) ELSE parts

\* segments[1:-1] = filter(None, segments[1:-1])
DropEmptyInner(segments) ==
    <<Head(segments)>>
        \o SelectSeq(SubSeq(segments, 2, Len(segments) - 1), NonEmpty)
        \o <<segments[Len(segments)]>>

ResolvedPath(bpath, path) ==
    IF StartsWith(path, <<"/">>) THEN path
    ELSE Join(DropEmptyInner(BaseParts(Split(bpath, "/")) \o Split(path, "/")), <<"/">>)

JoinParsed(base, url, b, p) ==
    IF p.scheme # b.scheme \/ p.scheme \notin UsesRelative THEN url
    ELSE IF p.scheme \in UsesNetloc /\ p.netloc # <<>> THEN urlunparse(p)
    ELSE IF p.path = <<>>
    THEN urlunparse([p EXCEPT !.netloc = b.netloc, !.path = b.path,
                              !.query = IF p.query # <<>> THEN p.query ELSE b.query])
    ELSE urlunparse([p EXCEPT !.netloc = b.netloc, !.path = ResolvedPath(b.path, p.path)])

JoinOnBase(base, url, b) == JoinParsed(base, url, b, urlparse2(url, b.scheme))

urljoin(base, url) == IF url = <<>> THEN base ELSE JoinOnBase(base, url, urlparse(base))

---------------------------------------------------------------------------
(* is_probably_article_url *)

\* re.search(r"/\d{4}/\d{2}/\d{2}/", path)
DatePath(path) ==
    \E i \in 1..(Len(path) - 11) :
        /\ path[i] = "/" /\ path[i + 5] = "/" /\ path[i + 8] = "/" /\ path[i + 11] = "/"
        /\ \A j \in {1, 2, 3, 4, 6, 7, 9, 10} : path[i + j] \in Digits

ArticlePath(path) ==
    IF DatePath(path) THEN TRUE
    ELSE IF Len(path) > 25 /\ Count(path, "/") >= 2 THEN TRUE
    ELSE FALSE

is_probably_article_url(url) == ArticlePath(urlparse(url).path)

---------------------------------------------------------------------------
(* Anchors.  An anchor is an `a` element that carries an href attribute:    *)
(*   href    the attribute's value                                          *)
(*   nodes   its text nodes in document order, each with the tag of the     *)
(*           child element that holds it ("a" for the link's own text)      *)
(*   title   its title attribute (empty when absent)                        *)
(*   parents the tag names of its ancestors, nearest first                  *)

RECURSIVE LStrip(_)
LStrip(s) == IF s # <<>> /\ Head(s) \in Whitespace THEN LStrip(Tail(s)) ELSE s

RECURSIVE RStrip(_)
RStrip(s) ==
    IF s # <<>> /\ s[Len(s)] \in Whitespace THEN RStrip(SubSeq(s, 1, Len(s) - 1)) ELSE s

\* str.strip()
Strip(s) == RStrip(LStrip(s))

\* re.sub(r"\s+", " ", s)
RECURSIVE CollapseWs(_)
CollapseWs(s) ==
    IF s = <<>> THEN <<>>
    ELSE IF Head(s) \in Whitespace THEN <<" ">> \o CollapseWs(LStrip(s))
    ELSE <<Head(s)>> \o CollapseWs(Tail(s))

NodeText(n) == Strip(n.s)

RECURSIVE NodeTexts(_)
NodeTexts(nodes) ==
    IF nodes = <<>> THEN <<>> ELSE <<NodeText(Head(nodes))>> \o NodeTexts(Tail(nodes))

HeadingTags == {"h1", "h2", "h3"}
IsHeadingNode(n) == n.within \in HeadingTags

\* a resolver that prefers the text of a heading inside the link, then the
\* title attribute, and only then the visible text
anchor_text_HeadingFirst(a) ==
    LET heads == SelectSeq(NodeTexts(SelectSeq(a.nodes, IsHeadingNode)), NonEmpty)
    IN  IF heads # <<>> THEN Join(heads, <<" ">>)
        ELSE IF Strip(a.title) # <<>> THEN Strip(a.title)
        ELSE Join(SelectSeq(NodeTexts(a.nodes), NonEmpty), <<" ">>)

\* a.get_text(" ", strip=True): every text node stripped, the empty ones
\* dropped, the rest joined by one space
anchor_text(a) == Join(SelectSeq(NodeTexts(a.nodes), NonEmpty), <<" ">>)

\* text_norm = re.sub(r"\s+", " ", text).strip()
text_norm(text) == Strip(CollapseWs(text))

JUNK_TEXT_PATTERNS ==
    {<<"r", "e", "a", "d", " ", "m", "o", "r", "e">>,
     <<"m", "o", "r", "e">>,
     <<"l", "i", "s", "t", "e", "n">>,
     <<"w", "a", "t", "c", "h">>,
     <<"s", "u", "b", "s", "c", "r", "i", "b", "e">>,
     <<"s", "i", "g", "n", " ", "i", "n">>,
     <<"l", "o", "g", " ", "i", "n">>,
     <<"r", "e", "g", "i", "s", "t", "e", "r">>,
     <<"p", "r", "i", "v", "a", "c", "y">>,
     <<"c", "o", "o", "k", "i", "e", "s">>,
     <<"c", "o", "o", "k", "i", "e", " ", "p", "o", "l", "i", "c", "y">>,
     <<"t", "e", "r", "m", "s">>,
     <<"c", "o", "n", "t", "a", "c", "t">>,
     <<"a", "b", "o", "u", "t">>,
     <<"h", "e", "l", "p">>,
     <<"a", "d", "v", "e", "r", "t">>,
     <<"a", "d", "v", "e", "r", "t", "i", "s", "e", "m", "e", "n", "t">>}

\* JUNK_TEXT_RE.search(t): every alternative is anchored by ^ and $, and t
\* carries no newline, so the search succeeds only on a whole-string match
JUNK_TEXT_RE(t) == Lower(t) \in JUNK_TEXT_PATTERNS

BAD_ANCESTOR_TAGS == {"nav", "footer", "header", "aside"}
GOOD_ANCESTOR_TAGS == {"main", "article"}

\* the chain cur, cur.parent, ... walked from the anchor itself
RECURSIVE WalkUp(_, _)
WalkUp(chain, tags) ==
    IF chain = <<>> THEN FALSE
    ELSE IF Head(chain) \in tags THEN TRUE
    ELSE WalkUp(Tail(chain), tags)

has_bad_ancestor(a) == WalkUp(<<"a">> \o a.parents, BAD_ANCESTOR_TAGS)
has_good_ancestor(a) == WalkUp(<<"a">> \o a.parents, GOOD_ANCESTOR_TAGS)

\* the length rule with the sweet spot opening one character late
LengthScore_Late(ln) ==
    IF 25 < ln /\ ln <= 140 THEN 3
    ELSE IF 15 <= ln /\ ln < 25 THEN 1
    ELSE IF ln > 140 THEN -1
    ELSE 0

LengthScore(ln) ==
    IF 25 <= ln /\ ln <= 140 THEN 3
    ELSE IF 15 <= ln /\ ln < 25 THEN 1
    ELSE IF ln > 140 THEN -1
    ELSE 0

score_anchor(a, text, url) ==
    LengthScore(Len(text))
        + (IF HeadingTags \cap Range(a.parents) # {} THEN 4 ELSE 0)
        + (IF has_good_ancestor(a) THEN 2 ELSE 0)
        - (IF has_bad_ancestor(a) THEN 4 ELSE 0)
        + (IF is_probably_article_url(url) THEN 1 ELSE 0)

\* a pattern is a literal; the empty pattern stands for None
passes_url_filters_NoDeny(url, allow_re, deny_re) ==
    IF allow_re # <<>> /\ ~Contains(url, allow_re) THEN FALSE
    ELSE TRUE

passes_url_filters(url, allow_re, deny_re) ==
    IF deny_re # <<>> /\ Contains(url, deny_re) THEN FALSE
    ELSE IF allow_re # <<>> /\ ~Contains(url, allow_re) THEN FALSE
    ELSE TRUE

---------------------------------------------------------------------------
(* The pages and sources the runs are drawn from *)

MaxAnchors == 3   \* longest page built from the core anchors
MaxItems == 2     \* largest --per_site
MaxSources == 2   \* longest source list

\* 'Storm at sea' (12 characters)
TitleStorm == <<"S", "t", "o", "r", "m", " ", "a", "t", " ", "s", "e", "a">>
\* ' Storm  at\nsea ' (15 characters raw)
TitleStormRaw == <<" ", "S", "t", "o", "r", "m", " ", " ", "a", "t", "\n", "s", "e", "a", " ">>
\* 'Budget vote due' (15 characters)
TitleBudget == <<"B", "u", "d", "g", "e", "t", " ", "v", "o", "t", "e", " ", "d", "u", "e">>
\* 'Council backs a tram line' (25 characters)
TitleCouncil == <<"C", "o", "u", "n", "c", "i", "l", " ", "b", "a", "c", "k", "s", " ", "a", " ", "t", "r", "a", "m", " ", "l", "i", "n", "e">>
\* 'COUNCIL BACKS A TRAM LINE' (25 characters)
TitleCouncilUpper == <<"C", "O", "U", "N", "C", "I", "L", " ", "B", "A", "C", "K", "S", " ", "A", " ", "T", "R", "A", "M", " ", "L", "I", "N", "E">>
\* 'Cookie  Policy' (14 characters raw)
TitleCookieRaw == <<"C", "o", "o", "k", "i", "e", " ", " ", "P", "o", "l", "i", "c", "y">>
\* 'Read more' (9 characters)
TitleReadMore == <<"R", "e", "a", "d", " ", "m", "o", "r", "e">>
\* 'Read the story' (14 characters)
TitleTeaser == <<"R", "e", "a", "d", " ", "t", "h", "e", " ", "s", "t", "o", "r", "y">>
\* '/a'
HrefA == <<"/", "a">>
\* 'https://h/b'
HrefB == <<"h", "t", "t", "p", "s", ":", "/", "/", "h", "/", "b">>
\* '/2024/01/02/s?utm_s=1#t'
HrefStoryTracked == <<"/", "2", "0", "2", "4", "/", "0", "1", "/", "0", "2", "/", "s", "?", "u", "t", "m", "_", "s", "=", "1", "#", "t">>
\* 'https://h/2024/01/02/s'
HrefStoryAbs == <<"h", "t", "t", "p", "s", ":", "/", "/", "h", "/", "2", "0", "2", "4", "/", "0", "1", "/", "0", "2", "/", "s">>
\* 'mailto:x@h'
HrefMail == <<"m", "a", "i", "l", "t", "o", ":", "x", "@", "h">>
\* '/video/v'
HrefVideo == <<"/", "v", "i", "d", "e", "o", "/", "v">>
\* allow pattern '/20'
PatDated == <<"/", "2", "0">>
\* deny pattern '/video'
PatVideo == <<"/", "v", "i", "d", "e", "o">>

Own(t) == <<[s |-> t, within |-> "a"]>>

Link(href, nodes, title, parents) ==
    [href |-> href, nodes |-> nodes, title |-> title, parents |-> parents]

Anchors ==
    [headA      |-> Link(HrefA, Own(TitleStorm), <<>>, <<"h2", "header", "body">>),
     headA2     |-> Link(HrefA, Own(TitleStormRaw), <<>>, <<"h2", "article", "body">>),
     headB      |-> Link(HrefB, Own(TitleBudget), <<>>, <<"h3", "nav", "body">>),
     story      |-> Link(HrefStoryTracked, Own(TitleCouncil), <<>>,
                         <<"p", "article", "main", "body">>),
     storyHead  |-> Link(HrefStoryAbs, Own(TitleBudget), <<>>, <<"h2", "article", "body">>),
     storyUpper |-> Link(HrefStoryTracked, Own(TitleCouncilUpper), <<>>, <<"h1", "body">>),
     video      |-> Link(HrefVideo, Own(TitleBudget), <<>>, <<"div", "main", "body">>),
     cookie     |-> Link(HrefA, Own(TitleCookieRaw), <<>>, <<"li", "footer", "body">>),
     readMore   |-> Link(HrefB, Own(TitleReadMore), <<>>, <<"p", "article", "body">>),
     mail       |-> Link(HrefMail, Own(TitleCouncil), <<>>, <<"p", "main", "body">>),
     noHref     |-> Link(<<>>, Own(TitleCouncil), <<>>, <<"h2", "body">>),
     teaser     |-> Link(HrefB, <<[s |-> TitleBudget, within |-> "h3"],
                                  [s |-> <<" ">>, within |-> "a"],
                                  [s |-> TitleTeaser, within |-> "span"]>>,
                         <<>>, <<"div", "article", "body">>),
     titled     |-> Link(HrefB, <<[s |-> <<"\n">>, within |-> "a"]>>, TitleCouncil,
                         <<"div", "main", "body">>)]

CoreAnchors == {"headA", "headA2", "headB", "story", "storyHead", "storyUpper"}
EdgeAnchors == {"video", "cookie", "readMore", "mail", "noHref", "teaser", "titled"}

\* every page of at most MaxAnchors core anchors, and every edge anchor alone,
\* before and after each core anchor
Pages ==
    SeqsUpTo(CoreAnchors, MaxAnchors)
        \cup {<<e>> : e \in EdgeAnchors}
        \cup {<<e, c>> : e \in EdgeAnchors, c \in CoreAnchors}
        \cup {<<c, e>> : c \in CoreAnchors, e \in EdgeAnchors}

\* the pages of the sources of a list of several
MergePages ==
    {<<>>, <<"story">>, <<"storyHead">>, <<"headB", "story">>, <<"storyHead", "headB">>}

NoFilter == [allow |-> <<>>, deny |-> <<>>]
Filters == {[allow |-> PatDated, deny |-> <<>>], [allow |-> <<>>, deny |-> PatVideo]}

\* c * n
Rep(c, n) == [i \in 1..n |-> c]

\* the homepage of the i-th source: https://h/s, https://h/ss, ...
SourceUrl(i) == HttpsPrefix \o <<"h", "/">> \o Rep("s", i)

SourceCfg(i, page, f) ==
    [name |-> i, url |-> SourceUrl(i), allow_url_regex |-> f.allow,
     deny_url_regex |-> f.deny, page |-> page]

RECURSIVE MergeLists(_)
MergeLists(n) ==
    IF n = 0 THEN {<<>>}
    ELSE {Append(t, SourceCfg(n, p, NoFilter)) : t \in MergeLists(n - 1), p \in MergePages}

SourceLists ==
    {<<>>}
        \cup {<<SourceCfg(1, p, NoFilter)>> : p \in Pages}
        \cup {<<SourceCfg(1, p, f)>> : p \in {q \in Pages : Len(q) < MaxAnchors},
                                       f \in Filters}
        \cup UNION {MergeLists(n) : n \in 2..MaxSources}

---------------------------------------------------------------------------
(* extract_candidates *)

\* soup.select(selectors[k]): the positions, in document order, of the
\* anchors of the page that the k-th selector matches
Matches(a, k) ==
    CASE k = 1 -> HeadingTags \cap Range(a.parents) # {}
      [] k = 2 -> "article" \in Range(a.parents)
      [] k = 3 -> "main" \in Range(a.parents)
      [] OTHER -> TRUE

RECURSIVE SelectFrom(_, _, _)
SelectFrom(page, k, i) ==
    IF i > Len(page) THEN <<>>
    ELSE (IF Matches(Anchors[page[i]], k) THEN <<i>> ELSE <<>>)
         \o SelectFrom(page, k, i + 1)

Select(page, k) == SelectFrom(page, k, 1)

LastSelector == 4

\* if len(scored) >= max_items * 2 and sel != "a[href]": break
EnoughFound_Strict(n, k) == n > max_items * 2 /\ k # LastSelector

EnoughFound(n, k) == n >= max_items * 2 /\ k # LastSelector

MinTitleLen == 12

\* lines 184-187: too short, or boilerplate
TitleRejected(t) ==
    IF Len(t) < MinTitleLen THEN TRUE
    ELSE JUNK_TEXT_RE(t)

SchemeOk(url) == StartsWith(url, HttpPrefix) \/ StartsWith(url, HttpsPrefix)

\* hashlib.sha1((abs_url + "||" + text_norm.lower()).encode()).hexdigest(),
\* taken as injective: the hashed string stands for its digest
Fingerprint(url, title) == url \o <<"|", "|">> \o Lower(title)

\* One turn of the loop body (lines 174-205) on anchor a of source src: the
\* candidate it makes, when it makes one.  Each `continue` is an early FALSE.
Skip == [ok |-> FALSE]

CandidateAt(a, src, t, abs_url) ==
    IF ~SchemeOk(abs_url) THEN Skip
    ELSE IF ~passes_url_filters(abs_url, src.allow_url_regex, src.deny_url_regex)
    THEN Skip
    ELSE [ok |-> TRUE, title |-> t, url |-> abs_url, key |-> Fingerprint(abs_url, t),
          score |-> score_anchor(a, t, abs_url)]

CandidateTitled(a, src, t) ==
    IF TitleRejected(t) THEN Skip
    ELSE CandidateAt(a, src, t, normalize_url(urljoin(src.url, a.href)))

CandidateText(a, src, text) ==
    IF text = <<>> THEN Skip ELSE CandidateTitled(a, src, text_norm(text))

Candidate(a, cfg) ==
    IF a.href = <<>> THEN Skip ELSE CandidateText(a, cfg, anchor_text(a))

\* x put behind every entry of the sorted list whose score is not below its own
InsertDesc(front, x) ==
    SubSeq(front, 1, Cardinality({i \in 1..Len(front) : front[i].score >= x.score}))
        \o <<x>>
        \o Drop(front, Cardinality({i \in 1..Len(front) : front[i].score >= x.score}))

\* list.sort(key=score, reverse=True): stable, equal scores keep their order
RECURSIVE SortDesc(_)
SortDesc(s) ==
    IF s = <<>> THEN <<>>
    ELSE InsertDesc(SortDesc(SubSeq(s, 1, Len(s) - 1)), s[Len(s)])

\* by_url[u] = {...} for an entry x met with its URL either new or known
PutByUrl(acc, x, at) ==
    IF at = {} THEN Append(acc, x)
    ELSE IF x.score > acc[CHOOSE j \in at : TRUE].score
    THEN [acc EXCEPT ![CHOOSE j \in at : TRUE] = x]
    ELSE acc

\* the by_url dictionary, as the list of its values in insertion order
RECURSIVE ByUrl(_, _)
ByUrl(sc, acc) ==
    IF sc = <<>> THEN acc
    ELSE ByUrl(Tail(sc),
               PutByUrl(acc, Head(sc), {i \in 1..Len(acc) : acc[i].url = Head(sc).url}))

\* it.pop("score", None)
PopScore(it) == [k \in (DOMAIN it) \ {"score"} |-> it[k]]

RECURSIVE PopScores(_)
PopScores(s) == IF s = <<>> THEN <<>> ELSE <<PopScore(Head(s))>> \o PopScores(Tail(s))

\* the first entry met for every URL, whatever its score
RECURSIVE FirstByUrl(_, _)
FirstByUrl(sc, acc) ==
    IF sc = <<>> THEN acc
    ELSE IF \E i \in 1..Len(acc) : acc[i].url = Head(sc).url
    THEN FirstByUrl(Tail(sc), acc)
    ELSE FirstByUrl(Tail(sc), Append(acc, Head(sc)))

\* the ranking without its sorts: the first n URLs in accumulation order
KeepBest_Unsorted(sc, n) == PopScores(Take(FirstByUrl(sc, <<>>), n))

\* the ranking with a dedupe that keeps the first copy of a URL
KeepBest_FirstSeen(sc, n) == PopScores(Take(SortDesc(FirstByUrl(sc, <<>>)), n))

\* the ranking without the cut to max_items
KeepBest_NoCut(sc, n) == PopScores(SortDesc(ByUrl(SortDesc(sc), <<>>)))

\* lines 211-231: sort, dedupe by URL, sort, cut, drop the score
KeepBest(sc, n) == PopScores(Take(SortDesc(ByUrl(SortDesc(sc), <<>>)), n))

---------------------------------------------------------------------------
(* The run of main *)

NoPass == [k \in 1..LastSelector |-> <<>>]
NoCount == [k \in 1..LastSelector |-> -1]

\* the locals of extract_candidates, outside a call of it
NoExtraction ==
    /\ sel = 0
    /\ pending = <<>>
    /\ seen = {}
    /\ scored = <<>>
    /\ origin = <<>>
    /\ visited = NoPass
    /\ endCount = NoCount
    /\ items = <<>>

NoExtraction_next ==
    /\ sel' = 0
    /\ pending' = <<>>
    /\ seen' = {}
    /\ scored' = <<>>
    /\ origin' = <<>>
    /\ visited' = NoPass
    /\ endCount' = NoCount
    /\ items' = <<>>

NoProbe == probe = <<>> /\ result = <<>>

Init ==
    /\ sources \in SourceLists
    /\ max_items \in 1..MaxItems
    /\ pc = "start"
    /\ srcIdx = 0
    /\ NoExtraction
    /\ rows = <<>>
    /\ slept = 0
    /\ fetched = 0
    /\ seen_url = {}
    /\ rowIdx = 0
    /\ deduped = <<>>
    /\ NoProbe

src == sources[srcIdx]

\* lines 285-288: an empty source list ends the run with exit status 2
Start ==
    /\ pc = "start"
    /\ IF sources = <<>>
       THEN pc' = "exit2" /\ srcIdx' = srcIdx
       ELSE pc' = "fetch" /\ srcIdx' = 1
    /\ UNCHANGED <<sources, max_items, sel, pending, seen, scored, origin, visited,
                   endCount, items, rows, slept, fetched, seen_url, rowIdx,
                   deduped, probe, result>>

\* the for loop of line 298 moves on, or ends and the merge begins
NextSource ==
    IF srcIdx < Len(sources)
    THEN pc' = "fetch" /\ srcIdx' = srcIdx + 1 /\ rowIdx' = rowIdx
    ELSE pc' = "merge" /\ srcIdx' = srcIdx /\ rowIdx' = 1

\* scrape_source, fetch returned a page: extract_candidates is entered
FetchOk ==
    /\ pc = "fetch"
    /\ fetched' = fetched + 1
    /\ pc' = "pass"
    /\ sel' = 1
    /\ pending' = Select(src.page, 1)
    /\ seen' = {}
    /\ scored' = <<>>
    /\ origin' = <<>>
    /\ visited' = NoPass
    /\ endCount' = NoCount
    /\ UNCHANGED <<sources, max_items, srcIdx, items, rows, slept, seen_url, rowIdx,
                   deduped, probe, result>>

\* scrape_source, fetch returned None (request failed, or not HTML):
\* lines 248-249 return [] at once, and main extends rows by nothing
FetchFail ==
    /\ pc = "fetch"
    /\ fetched' = fetched + 1
    /\ NextSource
    /\ UNCHANGED <<sources, max_items, sel, pending, seen, scored, origin, visited,
                   endCount, items, rows, slept, seen_url, deduped, probe, result>>

\* the loop body with a repeated fingerprint replacing the recorded candidate
\* when the repeat scores higher
ProcessAnchor_KeepHigher ==
    /\ pc = "pass"
    /\ pending # <<>>
    /\ LET i == Head(pending)
           c == Candidate(Anchors[src.page[i]], src)
           e == [score |-> c.score, title |-> c.title, url |-> c.url]
       IN  /\ pending' = Tail(pending)
           /\ visited' = [visited EXCEPT ![sel] = Append(@, i)]
           /\ IF c.ok /\ c.key \notin seen
              THEN /\ seen' = seen \cup {c.key}
                   /\ scored' = Append(scored, e)
                   /\ origin' = Append(origin, i)
              ELSE IF c.ok
              THEN /\ seen' = seen
                   /\ scored' = [k \in 1..Len(scored) |->
                                   IF /\ Fingerprint(scored[k].url, scored[k].title) = c.key
                                      /\ scored[k].score < c.score
                                   THEN e ELSE scored[k]]
                   /\ origin' = [k \in 1..Len(origin) |->
                                   IF /\ Fingerprint(scored[k].url, scored[k].title) = c.key
                                      /\ scored[k].score < c.score
                                   THEN i ELSE origin[k]]
              ELSE UNCHANGED <<seen, scored, origin>>
    /\ UNCHANGED <<sources, max_items, pc, srcIdx, sel, endCount, items, rows, slept,
                   fetched, seen_url, rowIdx, deduped, probe, result>>

\* one turn of `for a in soup.select(sel)`
ProcessAnchor ==
    /\ pc = "pass"
    /\ pending # <<>>
    /\ LET i == Head(pending)
           c == Candidate(Anchors[src.page[i]], src)
       IN  /\ pending' = Tail(pending)
           /\ visited' = [visited EXCEPT ![sel] = Append(@, i)]
           /\ IF c.ok /\ c.key \notin seen
              THEN /\ seen' = seen \cup {c.key}
                   /\ scored' = Append(scored, [score |-> c.score, title |-> c.title,
                                                url |-> c.url])
                   /\ origin' = Append(origin, i)
              ELSE UNCHANGED <<seen, scored, origin>>
    /\ UNCHANGED <<sources, max_items, pc, srcIdx, sel, endCount, items, rows, slept,
                   fetched, seen_url, rowIdx, deduped, probe, result>>

\* the inner loop is exhausted: lines 207-209, then the next selector if any
EndPass ==
    /\ pc = "pass"
    /\ pending = <<>>
    /\ endCount' = [endCount EXCEPT ![sel] = Len(scored)]
    /\ IF EnoughFound(Len(scored), sel) \/ sel = LastSelector
       THEN pc' = "rank" /\ UNCHANGED <<sel, pending>>
       ELSE pc' = "pass" /\ sel' = sel + 1 /\ pending' = Select(src.page, sel + 1)
    /\ UNCHANGED <<sources, max_items, srcIdx, seen, scored, origin, visited, items,
                   rows, slept, fetched, seen_url, rowIdx, deduped, probe, result>>

\* lines 211-231: extract_candidates returns
Rank ==
    /\ pc = "rank"
    /\ items' = KeepBest(scored, max_items)
    /\ pc' = "extracted"
    /\ UNCHANGED <<sources, max_items, srcIdx, sel, pending, seen, scored, origin,
                   visited, endCount, rows, slept, fetched, seen_url, rowIdx,
                   deduped, probe, result>>

\* lines 259-263: provenance is attached to every item
RECURSIVE Annotate(_, _)
Annotate(its, s) ==
    IF its = <<>> THEN <<>>
    ELSE <<[title |-> Head(its).title, url |-> Head(its).url,
            source_name |-> s.name, source_home |-> s.url]>>
         \o Annotate(Tail(its), s)

\* lines 259-266 and 300: annotate, sleep, return; main extends rows
Sleep ==
    /\ pc = "extracted"
    /\ slept' = slept + 1
    /\ rows' = rows \o Annotate(items, src)
    /\ NoExtraction_next
    /\ NextSource
    /\ UNCHANGED <<sources, max_items, fetched, seen_url, deduped, probe, result>>

\* a merge in which a later copy of a URL overwrites the earlier one
MergeRow_LastWins ==
    /\ pc = "merge"
    /\ rowIdx <= Len(rows)
    /\ LET r == rows[rowIdx]
           u == normalize_url(r.url)
       IN  IF u \in seen_url
           THEN /\ seen_url' = seen_url
                /\ deduped' = [i \in 1..Len(deduped) |->
                                  IF deduped[i].url = u THEN [r EXCEPT !.url = u]
                                  ELSE deduped[i]]
           ELSE /\ seen_url' = seen_url \cup {u}
                /\ deduped' = Append(deduped, [r EXCEPT !.url = u])
    /\ rowIdx' = rowIdx + 1
    /\ UNCHANGED <<sources, max_items, pc, srcIdx, sel, pending, seen, scored, origin,
                   visited, endCount, items, rows, slept, fetched, probe, result>>

\* one turn of `for r in rows` (lines 305-311)
MergeRow ==
    /\ pc = "merge"
    /\ rowIdx <= Len(rows)
    /\ LET r == rows[rowIdx]
           u == normalize_url(r.url)
       IN  IF u \in seen_url
           THEN UNCHANGED <<seen_url, deduped>>
           ELSE /\ seen_url' = seen_url \cup {u}
                /\ deduped' = Append(deduped, [r EXCEPT !.url = u])
    /\ rowIdx' = rowIdx + 1
    /\ UNCHANGED <<sources, max_items, pc, srcIdx, sel, pending, seen, scored, origin,
                   visited, endCount, items, rows, slept, fetched, probe, result>>

\* the merge loop is exhausted: deduped is written out (lines 313-323)
Finish ==
    /\ pc = "merge"
    /\ rowIdx > Len(rows)
    /\ pc' = "done"
    /\ UNCHANGED <<sources, max_items, srcIdx, sel, pending, seen, scored, origin,
                   visited, endCount, items, rows, slept, fetched, seen_url, rowIdx,
                   deduped, probe, result>>

Next ==
    \/ Start
    \/ FetchOk
    \/ FetchFail
    \/ ProcessAnchor
    \/ EndPass
    \/ Rank
    \/ Sleep
    \/ MergeRow
    \/ Finish

Spec == Init /\ [][Next]_vars

---------------------------------------------------------------------------
(* normalize_url and score_anchor on their own *)

MaxTail == 4        \* longest tail of lexemes behind the URL prefix
MaxTitleLen == 142  \* longest title scored

mainVars == <<sources, max_items, srcIdx, sel, pending, seen, scored, origin, visited,
              endCount, items, rows, slept, fetched, seen_url, rowIdx, deduped>>

Idle ==
    /\ sources = <<>>
    /\ max_items = 1
    /\ srcIdx = 0
    /\ NoExtraction
    /\ rows = <<>>
    /\ slept = 0
    /\ fetched = 0
    /\ seen_url = {}
    /\ rowIdx = 0
    /\ deduped = <<>>

\* 'http://h/p', 'http://h/p?x' and 'http://[h/p' (a netloc urlparse refuses)
UrlPrefixes ==
    {<<"h", "t", "t", "p", ":", "/", "/", "h", "/", "p">>,
     <<"h", "t", "t", "p", ":", "/", "/", "h", "/", "p", "?", "x">>,
     <<"h", "t", "t", "p", ":", "/", "/", "[", "h", "/", "p">>}

\* ? & = # utm_s Gclid fbclid
UrlLexemes ==
    {<<"?">>, <<"&">>, <<"=">>, <<"#">>, <<"u", "t", "m", "_", "s">>,
     <<"G", "c", "l", "i", "d">>, <<"f", "b", "c", "l", "i", "d">>}

UrlInputs == {pre \o Concat(t) : pre \in UrlPrefixes, t \in SeqsUpTo(UrlLexemes, MaxTail)}

InitNorm ==
    /\ Idle
    /\ pc = "probe"
    /\ probe \in {[u |-> u] : u \in UrlInputs}
    /\ result = <<>>

Normalize ==
    /\ pc = "probe"
    /\ result' = <<normalize_url(probe.u)>>
    /\ pc' = "once"
    /\ UNCHANGED <<mainVars, probe>>

Renormalize ==
    /\ pc = "once"
    /\ result' = Append(result, normalize_url(result[1]))
    /\ pc' = "twice"
    /\ UNCHANGED <<mainVars, probe>>

NextNorm == Normalize \/ Renormalize

SpecNorm == InitNorm /\ [][NextNorm]_vars

ParentChains ==
    {<<"body">>,
     <<"h2", "body">>,
     <<"span", "h3", "div", "body">>,
     <<"div", "main", "body">>,
     <<"li", "nav", "body">>,
     <<"h3", "article", "body">>,
     <<"h1", "header", "body">>,
     <<"p", "article", "aside", "body">>,
     <<"h2", "main", "footer", "body">>}

\* https://h/a, https://h/2024/01/02/s, https://h/2024/01/02,
\* https://h/news/a-long-slug-of-a-story (path: 28 characters, 2 slashes),
\* https://h/a-very-long-slug-of-a-story-x (30 characters, 1 slash),
\* https://h/news/a-slug-of-a-story (23 characters, 2 slashes)
ScoreUrls ==
    {<<"h", "t", "t", "p", "s", ":", "/", "/", "h", "/", "a">>,
     <<"h", "t", "t", "p", "s", ":", "/", "/", "h", "/", "2", "0", "2", "4", "/", "0", "1", "/", "0", "2", "/", "s">>,
     <<"h", "t", "t", "p", "s", ":", "/", "/", "h", "/", "2", "0", "2", "4", "/", "0", "1", "/", "0", "2">>,
     <<"h", "t", "t", "p", "s", ":", "/", "/", "h", "/", "n", "e", "w", "s", "/", "a", "-", "l", "o", "n", "g", "-", "s", "l", "u", "g", "-", "o", "f", "-", "a", "-", "s", "t", "o", "r", "y">>,
     <<"h", "t", "t", "p", "s", ":", "/", "/", "h", "/", "a", "-", "v", "e", "r", "y", "-", "l", "o", "n", "g", "-", "s", "l", "u", "g", "-", "o", "f", "-", "a", "-", "s", "t", "o", "r", "y", "-", "x">>,
     <<"h", "t", "t", "p", "s", ":", "/", "/", "h", "/", "n", "e", "w", "s", "/", "a", "-", "s", "l", "u", "g", "-", "o", "f", "-", "a", "-", "s", "t", "o", "r", "y">>}

InitScore ==
    /\ Idle
    /\ pc = "probe"
    /\ probe \in [ln : MinTitleLen..MaxTitleLen, parents : ParentChains, url : ScoreUrls]
    /\ result = <<>>

Score ==
    /\ pc = "probe"
    /\ result' = <<score_anchor(Link(probe.url, <<>>, <<>>, probe.parents),
                                Rep("x", probe.ln), probe.url)>>
    /\ pc' = "scored"
    /\ UNCHANGED <<mainVars, probe>>

NextScore == Score

SpecScore == InitScore /\ [][NextScore]_vars

---------------------------------------------------------------------------
(* Claims about normalize_url *)

\* the query of a URL as written: the text between the first ? and the first #
QueryText(u) == CutAtFirst(CutAtFirst(u, "#").head, "?").tail

\* its non-empty parameters, in order
QueryParams(u) == SelectSeq(Split(QueryText(u), "&"), NonEmpty)

\* a parameter whose key is utm_*, fbclid or gclid in any letter case
TrackingParam(part) ==
    LET k == Lower(CutAtFirst(part, "=").head)
    IN  \/ (Len(k) >= 4 /\ SubSeq(k, 1, 4) = <<"u", "t", "m", "_">>)
        \/ k = <<"f", "b", "c", "l", "i", "d">>
        \/ k = <<"g", "c", "l", "i", "d">>

UntrackedParam(part) == ~TrackingParam(part)

\* result[1] is a cleaned form of probe.u
Cleaned ==
    /\ "#" \notin Range(result[1])
    /\ \A i \in 1..Len(QueryParams(result[1])) : ~TrackingParam(QueryParams(result[1])[i])
    /\ QueryParams(result[1]) = SelectSeq(QueryParams(probe.u), UntrackedParam)

---------------------------------------------------------------------------
(* Claims about score_anchor *)

LengthPoints(ln) ==
    CASE ln \in 25..140 -> 3
      [] ln \in 15..24 -> 1
      [] ln > 140 -> -1
      [] OTHER -> 0

Under(parents, tags) == \E i \in 1..Len(parents) : parents[i] \in tags

\* C8: the score is the sum of five independent contributions: length (+3 for
\* 25..140, +1 for 15..24, -1 above 140, 0 for 12..14), +4 under h1/h2/h3,
\* +2 under main/article, -4 under nav/footer/header/aside, +1 for an
\* article-shaped URL.
C8_ScoreTable ==
    pc = "scored" =>
        result[1] = LengthPoints(probe.ln)
                    + (IF Under(probe.parents, {"h1", "h2", "h3"}) THEN 4 ELSE 0)
                    + (IF Under(probe.parents, {"main", "article"}) THEN 2 ELSE 0)
                    + (IF Under(probe.parents, {"nav", "footer", "header", "aside"})
                       THEN -4 ELSE 0)
                    + (IF is_probably_article_url(probe.url) THEN 1 ELSE 0)

\* a 25-character title under a good and a bad ancestor at once, with an
\* article-shaped URL: 3 + 2 - 4 + 1
C8_Witness ==
    /\ pc = "scored"
    /\ probe.ln = 25
    /\ Under(probe.parents, {"main", "article"})
    /\ Under(probe.parents, {"nav", "footer", "header", "aside"})
    /\ ~Under(probe.parents, {"h1", "h2", "h3"})
    /\ is_probably_article_url(probe.url)
    /\ result[1] = 2

---------------------------------------------------------------------------
(* Claims about extract_candidates.  Between Rank and Sleep (pc = "extracted") *)
(* the call has returned `items` and its locals are still at hand.            *)

Returned == pc = "extracted"
InCall == pc \in {"pass", "rank", "extracted"}

\* what the loop body makes of the i-th anchor of the page
OnPage(i) == Candidate(Anchors[src.page[i]], src)

Qualifying == {i \in 1..Len(src.page) : OnPage(i).ok}

\* the accumulated entries an item stands for
EntriesOf(it) == {i \in 1..Len(scored) : scored[i].url = it.url /\ scored[i].title = it.title}

DistinctUrls(s) == \A i, j \in 1..Len(s) : i # j => s[i].url # s[j].url

\* C1 as stated: with more than max_items qualifying anchors of pairwise
\* distinct URLs on the page, the result is the max_items highest-scored of
\* them, in descending order, whichever pass reaches them.
C1_TopOfPage ==
    (/\ Returned
     /\ Cardinality(Qualifying) > max_items
     /\ \A i, j \in Qualifying : i # j => OnPage(i).url # OnPage(j).url)
    => /\ Len(items) = max_items
       /\ \A k \in 1..Len(items) :
            \E i \in Qualifying :
                /\ OnPage(i).url = items[k].url
                /\ OnPage(i).title = items[k].title
                /\ \A j \in Qualifying :
                     (\A m \in 1..Len(items) : items[m].url # OnPage(j).url)
                        => OnPage(j).score <= OnPage(i).score
                /\ \A m \in 1..(k - 1), j \in Qualifying :
                     OnPage(j).url = items[m].url => OnPage(j).score >= OnPage(i).score

\* C1 amended: with more than max_items accumulated candidates of pairwise
\* distinct URLs, the result is the max_items highest-scored of the
\* accumulated candidates, in descending order; a qualifying anchor that only
\* a skipped pass would have reached is not among them.
C1_TopOfAccumulated ==
    (Returned /\ Len(scored) > max_items /\ DistinctUrls(scored))
    => /\ Len(items) = max_items
       /\ \A k \in 1..Len(items) :
            \E i \in EntriesOf(items[k]) :
                /\ \A j \in 1..Len(scored) :
                     (\A m \in 1..Len(items) : items[m].url # scored[j].url)
                        => scored[j].score <= scored[i].score
                /\ \A m \in 1..(k - 1) : \A j \in EntriesOf(items[m]) :
                     scored[j].score >= scored[i].score

\* escalation stopped early, more candidates were accumulated than returned,
\* and the best one was not accumulated first
C1_Witness ==
    /\ Returned
    /\ Len(scored) > max_items
    /\ DistinctUrls(scored)
    /\ sel < LastSelector
    /\ \E i \in 2..Len(scored) : \A j \in 1..(i - 1) : scored[j].score < scored[i].score

\* C2: the result holds one item per URL, and the item of a URL is the
\* accumulated candidate of that URL with the highest score, the one
\* accumulated first among equals.
C2_BestPerUrl ==
    Returned =>
        /\ DistinctUrls(items)
        /\ \A k \in 1..Len(items) :
             LET same == {i \in 1..Len(scored) : scored[i].url = items[k].url}
                 best == {i \in same : \A j \in same : scored[j].score <= scored[i].score}
                 first == CHOOSE i \in best : \A j \in best : i <= j
             IN  same # {} /\ items[k].title = scored[first].title

\* two accumulated candidates share a URL, the later one scores higher and
\* carries another title, and it is the one returned
C2_Witness ==
    /\ Returned
    /\ \E i, j \in 1..Len(scored) :
         /\ i < j
         /\ scored[i].url = scored[j].url
         /\ scored[i].title # scored[j].title
         /\ scored[i].score < scored[j].score
         /\ \E k \in 1..Len(items) : items[k] = [title |-> scored[j].title,
                                                  url |-> scored[j].url]

\* C4: the passes run in the order heading, article, main, all; pass k+1 runs
\* exactly when fewer than 2 * max_items candidates are accumulated at the end
\* of pass k; a pass that is skipped visits no anchor; a pass that runs visits
\* every anchor its selector matches, the threshold being tested at its end only.
C4_Escalation ==
    InCall =>
        /\ sel \in 1..LastSelector
        /\ \A k \in 1..LastSelector :
             /\ k < sel => (endCount[k] >= 0 /\ endCount[k] < 2 * max_items
                            /\ visited[k] = Select(src.page, k))
             /\ k > sel => (visited[k] = <<>> /\ endCount[k] = -1)
        /\ pc = "pass" => endCount[sel] = -1
        /\ pc \in {"rank", "extracted"} =>
             /\ endCount[sel] = Len(scored)
             /\ visited[sel] = Select(src.page, sel)
             /\ sel < LastSelector => endCount[sel] >= 2 * max_items

\* the threshold was crossed in the middle of the heading pass, the pass went
\* on to its end and the three later passes were skipped
C4_Witness ==
    /\ Returned
    /\ sel = 1
    /\ endCount[1] > 2 * max_items
    /\ Select(src.page, 2) # <<>>

\* s carries single spaces only, and none at its ends
Collapsed(s) ==
    /\ \A i \in 1..Len(s) : s[i] \in Whitespace => s[i] = " "
    /\ \A i \in 1..(Len(s) - 1) : ~(s[i] = " " /\ s[i + 1] = " ")
    /\ s # <<>> => (s[1] # " " /\ s[Len(s)] # " ")

Acceptable(e) ==
    /\ Len(e.title) >= 12
    /\ Collapsed(e.title)
    /\ Lower(e.title) \notin JUNK_TEXT_PATTERNS
    /\ (SubSeq(e.url, 1, 7) = HttpPrefix \/ SubSeq(e.url, 1, 8) = HttpsPrefix)
    /\ src.allow_url_regex # <<>> => Contains(e.url, src.allow_url_regex)
    /\ src.deny_url_regex # <<>> => ~Contains(e.url, src.deny_url_regex)

\* C5: every accumulated candidate, in every pass, and every returned item
\* has a collapsed title of at least 12 characters that is no boilerplate
\* phrase, an http(s) URL, a URL matching the allow pattern when there is one
\* and not matching the deny pattern when there is one.
C5_RejectionRules ==
    InCall =>
        /\ \A i \in 1..Len(scored) : Acceptable(scored[i])
        /\ \A k \in 1..Len(items) : Acceptable(items[k])

\* a page with an anchor whose URL the deny pattern matches and an anchor that
\* is returned
C5_Witness ==
    /\ Returned
    /\ src.deny_url_regex # <<>>
    /\ items # <<>>
    /\ \E i \in 1..Len(src.page) :
         Contains(urljoin(src.url, Anchors[src.page[i]].href), src.deny_url_regex)

\* whitespace characters turned into spaces
RECURSIVE Spaced(_)
Spaced(s) ==
    IF s = <<>> THEN <<>>
    ELSE <<IF Head(s) \in Whitespace THEN " " ELSE Head(s)>> \o Spaced(Tail(s))

\* the words of a text
Words(s) == SelectSeq(Split(Spaced(s), " "), NonEmpty)

\* the words of all text nodes of a link, in document order
RECURSIVE VisibleWords(_)
VisibleWords(nodes) ==
    IF nodes = <<>> THEN <<>> ELSE Words(Head(nodes).s) \o VisibleWords(Tail(nodes))

AnchorOf(i) == Anchors[src.page[origin[i]]]

\* C6 as stated: the title of a candidate is the text of a heading inside the
\* link when there is one, else the title attribute, else the visible text.
C6_HeadingThenTitleThenText ==
    InCall => \A i \in 1..Len(scored) :
                scored[i].title = text_norm(anchor_text_HeadingFirst(AnchorOf(i)))

\* C6 amended: the title of a candidate is always the link's full visible
\* text, the words of all its text nodes joined by single spaces, headings
\* inside the link and the title attribute having no part in it; a link
\* without visible text makes no candidate.
C6_VisibleText ==
    InCall =>
        /\ \A i \in 1..Len(scored) :
             scored[i].title = Join(VisibleWords(AnchorOf(i).nodes), <<" ">>)
        /\ \A k \in 1..LastSelector : \A i \in 1..Len(visited[k]) :
             VisibleWords(Anchors[src.page[visited[k][i]]].nodes) = <<>>
                => \A j \in 1..Len(origin) : origin[j] # visited[k][i]

\* a candidate made from a link that holds a heading and further text
C6_Witness ==
    /\ Returned
    /\ \E i \in 1..Len(scored) :
         /\ \E n \in 1..Len(AnchorOf(i).nodes) : AnchorOf(i).nodes[n].within \in HeadingTags
         /\ \E n \in 1..Len(AnchorOf(i).nodes) :
              /\ AnchorOf(i).nodes[n].within \notin HeadingTags
              /\ Words(AnchorOf(i).nodes[n].s) # <<>>
         /\ \E k \in 1..Len(items) : items[k].title = scored[i].title

\* C9: the result has at most max_items items, each with a title and a url
\* and nothing else.
C9_CappedTitleUrl ==
    Returned =>
        /\ Len(items) <= max_items
        /\ \A k \in 1..Len(items) : DOMAIN items[k] = {"title", "url"}

\* more URLs were accumulated than max_items, and max_items items came back
C9_Witness ==
    /\ Returned
    /\ Cardinality({scored[i].url : i \in 1..Len(scored)}) > max_items
    /\ Len(items) = max_items

---------------------------------------------------------------------------
(* Claims about main *)

\* C3: the final list has one row per URL, and the row of a URL is the first
\* row of that URL in the concatenation, the one of the source processed
\* earliest.
C3_FirstSourceWins ==
    pc = "done" =>
        /\ DistinctUrls(deduped)
        /\ \A j \in 1..Len(rows) :
             LET first == CHOOSE i \in 1..j :
                              /\ rows[i].url = rows[j].url
                              /\ \A m \in 1..(i - 1) : rows[m].url # rows[j].url
             IN  \E d \in 1..Len(deduped) : deduped[d] = rows[first]

\* two sources gave the same URL, the copy of the later source had the higher
\* score on its page, and the final list holds the copy of the earlier source
C3_Witness ==
    /\ pc = "done"
    /\ Len(sources) >= 2
    /\ \E a \in 1..Len(sources[1].page), b \in 1..Len(sources[2].page) :
         LET ca == Candidate(Anchors[sources[1].page[a]], sources[1])
             cb == Candidate(Anchors[sources[2].page[b]], sources[2])
         IN  /\ ca.ok /\ cb.ok
             /\ ca.url = cb.url
             /\ ca.title # cb.title
             /\ ca.score < cb.score
             /\ \E i, j \in 1..Len(rows) :
                  /\ rows[i].source_name = 1 /\ rows[i].title = ca.title
                  /\ rows[j].source_name = 2 /\ rows[j].title = cb.title
                  /\ rows[j].url = rows[i].url
                  /\ \E d \in 1..Len(deduped) : deduped[d] = rows[i]

\* C10 as stated: the courtesy delay happens once after every source, a
\* source whose fetch failed included: whenever a fetch is about to begin or
\* the loop is over, as many delays as sources processed have been made.
C10_DelayAfterEverySource ==
    /\ pc = "fetch" => slept = srcIdx - 1
    /\ pc \in {"merge", "done"} => slept = Len(sources)

---------------------------------------------------------------------------
(* Claim about the fingerprints of extract_candidates *)

\* the anchors met so far, in pass order and, within a pass, document order
Encounters == visited[1] \o visited[2] \o visited[3] \o visited[4]

\* what lines 179-204 compute for anchor id of the pool on the page of the
\* n-th source: its title, the title in lower case as the fingerprint takes
\* it, its normalized URL, and the score of title and URL
PairOf(n, id) ==
    [href |-> Anchors[id].href # <<>>,
     url |-> normalize_url(urljoin(SourceUrl(n), Anchors[id].href)),
     title |-> text_norm(anchor_text(Anchors[id])),
     lower |-> Lower(text_norm(anchor_text(Anchors[id]))),
     score |-> score_anchor(Anchors[id], text_norm(anchor_text(Anchors[id])),
                            normalize_url(urljoin(SourceUrl(n), Anchors[id].href)))]

\* PairOf, tabulated
Pairs == [n \in 1..MaxSources |-> [id \in DOMAIN Anchors |-> PairOf(n, id)]]

\* the p-th anchor met
Met(p) == Pairs[src.name][src.page[Encounters[p]]]

\* the met anchor m has an href and the pair (normalized URL, lower-cased
\* title) of the accumulated entry e
SamePair(m, e) == m.href /\ m.url = e.url /\ m.lower = Lower(e.title)

\* the first encounter of an anchor with the pair of e
FirstEncounter(e) ==
    CHOOSE p \in 1..Len(Encounters) :
        /\ SamePair(Met(p), e)
        /\ \A q \in 1..(p - 1) : ~SamePair(Met(q), e)

\* C11: at every point of the pass sequence the accumulated list holds at most
\* one candidate per (normalized URL, lower-cased title) pair, and it is the
\* one made from the first anchor with that pair met in pass order and, within
\* a pass, document order: it carries that anchor's title and score, whatever
\* a later anchor with the same pair would score.
C11_FirstEncounterKept ==
    InCall =>
        /\ \A i, j \in 1..Len(scored) :
             (/\ scored[i].url = scored[j].url
              /\ Lower(scored[i].title) = Lower(scored[j].title)) => i = j
        /\ \A i \in 1..Len(scored) :
             /\ \E p \in 1..Len(Encounters) : SamePair(Met(p), scored[i])
             /\ origin[i] = Encounters[FirstEncounter(scored[i])]
             /\ scored[i].title = Met(FirstEncounter(scored[i])).title
             /\ scored[i].score = Met(FirstEncounter(scored[i])).score

\* an anchor met later had the pair of a recorded candidate and would have
\* scored higher than it; the recorded candidate kept the first anchor's score
C11_Witness ==
    /\ Returned
    /\ \E i \in 1..Len(scored) : \E p \in 1..Len(Encounters) :
         /\ p > FirstEncounter(scored[i])
         /\ Encounters[p] # origin[i]
         /\ SamePair(Met(p), scored[i])
         /\ Met(p).score > scored[i].score
         /\ scored[i].score = Met(FirstEncounter(scored[i])).score

=============================================================================
